---------------------------- MODULE Spec2Model ----------------------------
(***************************************************************************)
(* Model of custom_components/nest_matters/climate.py: NestMattersClimate, *)
(* one climate entity that reads temperatures from a Matter entity, modes  *)
(* and humidity from a Google entity, and forwards commands to them.       *)
(*                                                                         *)
(* The host (state registry, event bus, service dispatcher) is outside the *)
(* repository.  It is modelled only by what the entity observes of it:     *)
(* hass.states.get, the set of subscriptions the event bus holds, and the  *)
(* calls handed to hass.services.async_call.                               *)
(*                                                                         *)
(* Python values are carried as options: None is <<>> and a value v is     *)
(* <<v>>, so that None can be compared with numbers, strings and lists.    *)
(***************************************************************************)
EXTENDS Integers, Sequences, FiniteSets, TLC

\* ---------------------------------------------------------------- bounds
\* Most lifecycle calls (attach and detach together) and most command calls in
\* one behaviour.
MaxLifecycle == 4
MaxCommands == 2

\* ---------------------------------------------------------- Python values
None == <<>>
Val(v) == <<v>>

\* const.py / configuration: the two source entity ids (config[CONF_MATTER_ENTITY],
\* config[CONF_GOOGLE_ENTITY]), kept in _matter_entity_id and _google_entity_id.
matter_entity_id == "climate.matter"
google_entity_id == "climate.google"
Entities == {matter_entity_id, google_entity_id}

\* The sentinel compared against in `available`.
UNAVAILABLE == "unavailable"

\* Literal fallbacks of min_temp and max_temp.
DEFAULT_MIN_TEMP == 7
DEFAULT_MAX_TEMP == 35

\* ------------------------------------------------- registry contents (inputs)
\* A registry record is a State: a state string and an attribute mapping.
State(s, a) == [state |-> s, attributes |-> a]

MatterKeys == {"current_temperature", "temperature", "min_temp", "max_temp"}
GoogleKeys == {"hvac_modes", "fan_mode", "fan_modes", "current_humidity"}

MatterValue(k) ==
    CASE k = "current_temperature" -> Val(19)
      [] k = "temperature"         -> Val(21)
      [] k = "min_temp"            -> Val(10)
      [] k = "max_temp"            -> Val(30)

GoogleValue(k) ==
    CASE k = "hvac_modes"       -> Val(<<"heat", "off">>)
      [] k = "fan_mode"         -> Val("low")
      [] k = "fan_modes"        -> Val(<<"low", "high">>)
      [] k = "current_humidity" -> Val(45)

\* An attribute mapping with the keys of `present` carrying their values and the
\* keys of `null` present with the value None; every other key is missing.
Mapping(e, present, null) ==
    [k \in present \cup null |->
        IF k \notin present THEN None
        ELSE IF e = matter_entity_id THEN MatterValue(k) ELSE GoogleValue(k)]

\* Attribute mappings the sources may publish: none, all, and two partial ones,
\* chosen so that every key occurs with a value, with None, and missing from a
\* mapping that is not empty.
MatterAttributes ==
    { Mapping(matter_entity_id, {}, {}),
      Mapping(matter_entity_id, MatterKeys, {}),
      Mapping(matter_entity_id, {}, {"current_temperature", "min_temp"}),
      Mapping(matter_entity_id, {}, {"temperature", "max_temp"}) }
GoogleAttributes ==
    { Mapping(google_entity_id, {}, {}),
      Mapping(google_entity_id, GoogleKeys, {}),
      Mapping(google_entity_id, {}, {"hvac_modes", "fan_mode"}),
      Mapping(google_entity_id, {}, {"fan_modes", "current_humidity"}) }

Attributes(e) == IF e = matter_entity_id THEN MatterAttributes ELSE GoogleAttributes
Keys(e) == IF e = matter_entity_id THEN MatterKeys ELSE GoogleKeys

\* What hass.states.get(entity_id) may return: None, a State of an entity that
\* is up (any of the attribute mappings), or a State whose state string is the
\* sentinel (all attributes still published).
Records(e) ==
    {None}
        \cup {Val(State("heat", a)) : a \in Attributes(e)}
        \cup {Val(State(UNAVAILABLE, a)) : a \in {b \in Attributes(e) : DOMAIN b = Keys(e)}}

\* Arguments callers pass to the command methods.
TemperatureInputs == {None, Val(21), Val(22)}
HvacModeInputs == {"heat", "dry"}
FanModeInputs == {"low", "turbo"}

AccessorNames == {"current_temperature", "target_temperature", "hvac_mode",
                  "hvac_modes", "fan_mode", "fan_modes", "current_humidity",
                  "min_temp", "max_temp", "available"}

\* ------------------------------------------------------------------ state
VARIABLES
    states,            \* host registry: entity id -> None or State
    remove_listeners,  \* self._remove_listeners: unsubscribe handles, in order
    listeners,         \* host event bus: handles whose subscription is active
    invoked,           \* handle -> how many times the handle has been called
    nAttach,           \* async_added_to_hass calls so far
    nDetach,           \* async_will_remove_from_hass calls so far
    lifecycle,         \* "created", "attached" or "detached": last of the two
    ncalls,            \* hass.services.async_call calls so far
    forwarded,         \* command methods called with a present value so far
    op,                \* the operation that produced this state
    arg,               \* its argument (accessor name, command value), or None
    issued,            \* service calls the operation handed to the dispatcher
    writes,            \* async_write_ha_state calls (re-publishes) it made
    raised,            \* whether the operation ended by raising
    result             \* value returned by the last accessor read

vars == <<states, remove_listeners, listeners, invoked, nAttach, nDetach,
          lifecycle, ncalls, forwarded, op, arg, issued, writes, raised, result>>

Handles == 1..MaxLifecycle

\* ------------------------------------------------------- registry access
hass_states_get(entity_id) == states[entity_id]

\* Python truthiness of `state and state.attributes`.
HasAttributes(st) == st # None /\ DOMAIN st[1].attributes # {}

\* dict.get(key) and dict.get(key, default)
Get(attributes, key) ==
    IF key \in DOMAIN attributes THEN attributes[key] ELSE None
GetDefault(attributes, key, default) ==
    IF key \in DOMAIN attributes THEN attributes[key] ELSE default

\* ------------------------------------------------------------- accessors
current_temperature_temperature ==
    LET matter_state == hass_states_get(matter_entity_id) IN
    IF HasAttributes(matter_state)
    THEN Get(matter_state[1].attributes, "temperature")
    ELSE None

current_temperature ==
    LET matter_state == hass_states_get(matter_entity_id) IN
    IF HasAttributes(matter_state)
    THEN Get(matter_state[1].attributes, "current_temperature")
    ELSE None

target_temperature ==
    LET matter_state == hass_states_get(matter_entity_id) IN
    IF HasAttributes(matter_state)
    THEN Get(matter_state[1].attributes, "temperature")
    ELSE None

hvac_mode ==
    LET google_state == hass_states_get(google_entity_id) IN
    IF google_state # None THEN Val(google_state[1].state) ELSE None

hvac_modes ==
    LET google_state == hass_states_get(google_entity_id) IN
    IF HasAttributes(google_state)
    THEN GetDefault(google_state[1].attributes, "hvac_modes", Val(<<>>))
    ELSE Val(<<>>)

fan_mode ==
    LET google_state == hass_states_get(google_entity_id) IN
    IF HasAttributes(google_state)
    THEN Get(google_state[1].attributes, "fan_mode")
    ELSE None

fan_modes ==
    LET google_state == hass_states_get(google_entity_id) IN
    IF HasAttributes(google_state)
    THEN GetDefault(google_state[1].attributes, "fan_modes", Val(<<>>))
    ELSE Val(<<>>)

current_humidity ==
    LET google_state == hass_states_get(google_entity_id) IN
    IF HasAttributes(google_state)
    THEN Get(google_state[1].attributes, "current_humidity")
    ELSE None

min_temp_falsy_default ==
    LET matter_state == hass_states_get(matter_entity_id) IN
    IF HasAttributes(matter_state)
       /\ Get(matter_state[1].attributes, "min_temp") # None
    THEN Get(matter_state[1].attributes, "min_temp")
    ELSE Val(DEFAULT_MIN_TEMP)

min_temp ==
    LET matter_state == hass_states_get(matter_entity_id) IN
    IF HasAttributes(matter_state)
    THEN GetDefault(matter_state[1].attributes, "min_temp", Val(DEFAULT_MIN_TEMP))
    ELSE Val(DEFAULT_MIN_TEMP)

max_temp ==
    LET matter_state == hass_states_get(matter_entity_id) IN
    IF HasAttributes(matter_state)
    THEN GetDefault(matter_state[1].attributes, "max_temp", Val(DEFAULT_MAX_TEMP))
    ELSE Val(DEFAULT_MAX_TEMP)

available_matter_only ==
    LET matter_state == hass_states_get(matter_entity_id) IN
    /\ matter_state # None
    /\ matter_state[1].state # UNAVAILABLE

available ==
    LET matter_state == hass_states_get(matter_entity_id)
        google_state == hass_states_get(google_entity_id)
    IN  /\ matter_state # None
        /\ matter_state[1].state # UNAVAILABLE
        /\ google_state # None
        /\ google_state[1].state # UNAVAILABLE

\* A property read by the host or a caller: the property named `name`.
Accessor(name) ==
    CASE name = "current_temperature" -> current_temperature
      [] name = "target_temperature"  -> target_temperature
      [] name = "hvac_mode"           -> hvac_mode
      [] name = "hvac_modes"          -> hvac_modes
      [] name = "fan_mode"            -> fan_mode
      [] name = "fan_modes"           -> fan_modes
      [] name = "current_humidity"    -> current_humidity
      [] name = "min_temp"            -> min_temp
      [] name = "max_temp"            -> max_temp
      [] name = "available"           -> Val(available)

\* ------------------------------------------------------ command forwarding
\* The data handed to hass.services.async_call("climate", service, data).
ServiceCall(service, entity_id, key, value) ==
    [domain |-> "climate", service |-> service, entity_id |-> entity_id,
     key |-> key, value |-> value]

\* The calls async_set_temperature(temperature=...) hands to the dispatcher;
\* `fails` says whether the dispatcher raises on the call.
async_set_temperature_no_guard(temperature, fails) ==
    <<ServiceCall("set_temperature", matter_entity_id, "temperature", temperature)>>

async_set_temperature(temperature, fails) ==
    IF temperature = None
    THEN <<>>
    ELSE <<ServiceCall("set_temperature", matter_entity_id, "temperature",
                       temperature)>>

async_set_hvac_mode_to_matter(mode, fails) ==
    <<ServiceCall("set_hvac_mode", matter_entity_id, "hvac_mode", Val(mode))>>

async_set_hvac_mode(mode, fails) ==
    <<ServiceCall("set_hvac_mode", google_entity_id, "hvac_mode", Val(mode))>>

async_set_fan_mode_retry(mode, fails) ==
    LET call == ServiceCall("set_fan_mode", google_entity_id, "fan_mode", Val(mode))
    IN  IF fails THEN <<call, call>> ELSE <<call>>

async_set_fan_mode(mode, fails) ==
    <<ServiceCall("set_fan_mode", google_entity_id, "fan_mode", Val(mode))>>

\* ------------------------------------------------------------- lifecycle
\* The entity ids async_added_to_hass passes to async_track_state_change_event.
TrackedEntities_matter_only == {matter_entity_id}

TrackedEntities == {matter_entity_id, google_entity_id}

\* Re-publishes made by async_update: its body is `pass`.
async_update == 0

\* Re-publishes made by one run of _handle_source_state_change:
\* one self.async_write_ha_state().
handle_source_state_change == 1

\* The subscription the host holds for handle h, if it is still active.
Subscription(ls, h) == {l \in ls : l.handle = h}

\* The loop of async_will_remove_from_hass from position i on: it calls every
\* handle of _remove_listeners in order.  A handle whose subscription is active
\* removes it.  A handle whose subscription is already gone finds nothing to
\* remove in the host's callback table; the host either ignores that or raises
\* (hostRaises), and an exception leaves the loop.
RECURSIVE RemoveAll(_, _, _, _, _)
RemoveAll(handles, i, ls, inv, hostRaises) ==
    IF i > Len(handles)
    THEN [listeners |-> ls, invoked |-> inv, raised |-> FALSE]
    ELSE LET h    == handles[i]
             inv1 == [inv EXCEPT ![h] = @ + 1]
         IN  IF Subscription(ls, h) # {}
             THEN RemoveAll(handles, i + 1, ls \ Subscription(ls, h), inv1, hostRaises)
             ELSE IF hostRaises
                  THEN [listeners |-> ls, invoked |-> inv1, raised |-> TRUE]
                  ELSE RemoveAll(handles, i + 1, ls, inv1, hostRaises)

\* Handlers the event bus runs for a state change of entity e.
Notified(ls, e) == {l \in ls : e \in l.entity_ids}

\* ---------------------------------------------------------------- actions
Init ==
    /\ states \in [Entities -> {None}]
    /\ remove_listeners = <<>>
    /\ listeners = {}
    /\ invoked = [h \in Handles |-> 0]
    /\ nAttach = 0
    /\ nDetach = 0
    /\ lifecycle = "created"
    /\ ncalls = 0
    /\ forwarded = 0
    /\ op = "init"
    /\ arg = None
    /\ issued = <<>>
    /\ writes = 0
    /\ raised = FALSE
    /\ result = None

\* async_added_to_hass
Attach ==
    /\ nAttach + nDetach < MaxLifecycle
    /\ LET h == nAttach + 1 IN
         /\ remove_listeners' = Append(remove_listeners, h)
         /\ listeners' = listeners \cup {[handle |-> h, entity_ids |-> TrackedEntities]}
    /\ nAttach' = nAttach + 1
    /\ lifecycle' = "attached"
    /\ op' = "attach"
    /\ arg' = None
    /\ issued' = <<>>
    /\ writes' = async_update
    /\ raised' = FALSE
    /\ result' = None
    /\ UNCHANGED <<states, invoked, nDetach, ncalls, forwarded>>

\* async_will_remove_from_hass
Detach ==
    /\ nAttach + nDetach < MaxLifecycle
    /\ \E hostRaises \in BOOLEAN :
         LET r == RemoveAll(remove_listeners, 1, listeners, invoked, hostRaises) IN
           /\ listeners' = r.listeners
           /\ invoked' = r.invoked
           /\ raised' = r.raised
    /\ nDetach' = nDetach + 1
    /\ lifecycle' = "detached"
    /\ op' = "detach"
    /\ arg' = None
    /\ issued' = <<>>
    /\ writes' = 0
    /\ result' = None
    /\ UNCHANGED <<states, remove_listeners, nAttach, ncalls, forwarded>>

\* A source entity changes state in the host registry; the event bus runs
\* _handle_source_state_change once for every active subscription tracking it.
SourceChange ==
    /\ \E e \in Entities : \E rec \in Records(e) :
         /\ rec # states[e]
         /\ states' = [states EXCEPT ![e] = rec]
         /\ writes' = Cardinality(Notified(listeners, e)) * handle_source_state_change
         /\ arg' = Val(e)
    /\ op' = "state_change"
    /\ issued' = <<>>
    /\ raised' = FALSE
    /\ result' = None
    /\ UNCHANGED <<remove_listeners, listeners, invoked, nAttach, nDetach,
                   lifecycle, ncalls, forwarded>>

\* async_update called on its own (the host's refresh).
Update ==
    /\ op' = "update"
    /\ arg' = None
    /\ issued' = <<>>
    /\ writes' = async_update
    /\ raised' = FALSE
    /\ result' = None
    /\ UNCHANGED <<states, remove_listeners, listeners, invoked, nAttach, nDetach,
                   lifecycle, ncalls, forwarded>>

\* One property read.
Read ==
    /\ \E name \in AccessorNames :
         /\ result' = Accessor(name)
         /\ arg' = Val(name)
    /\ op' = "read"
    /\ issued' = <<>>
    /\ writes' = 0
    /\ raised' = FALSE
    /\ UNCHANGED <<states, remove_listeners, listeners, invoked, nAttach, nDetach,
                   lifecycle, ncalls, forwarded>>

\* What a command method leaves behind, given the calls it hands over.
Forward(name, value, calls, fails) ==
    /\ op' = name
    /\ arg' = value
    /\ issued' = calls
    /\ ncalls' = ncalls + Len(calls)
    /\ forwarded' = forwarded + (IF value = None THEN 0 ELSE 1)
    /\ raised' = (fails /\ calls # <<>>)
    /\ writes' = 0
    /\ result' = None
    /\ UNCHANGED <<states, remove_listeners, listeners, invoked, nAttach, nDetach,
                   lifecycle>>

SetTemperature ==
    /\ forwarded < MaxCommands
    /\ \E temperature \in TemperatureInputs : \E fails \in BOOLEAN :
         Forward("set_temperature", temperature,
                 async_set_temperature(temperature, fails), fails)

SetHvacMode ==
    /\ forwarded < MaxCommands
    /\ \E mode \in HvacModeInputs : \E fails \in BOOLEAN :
         Forward("set_hvac_mode", Val(mode), async_set_hvac_mode(mode, fails), fails)

SetFanMode ==
    /\ forwarded < MaxCommands
    /\ \E mode \in FanModeInputs : \E fails \in BOOLEAN :
         Forward("set_fan_mode", Val(mode), async_set_fan_mode(mode, fails), fails)

Next ==
    \/ Attach
    \/ Detach
    \/ SourceChange
    \/ Update
    \/ Read
    \/ SetTemperature
    \/ SetHvacMode
    \/ SetFanMode

Spec == Init /\ [][Next]_vars

\* ------------------------------------------------------------------ claims
\* How a source record presents itself: absent, present with the sentinel
\* state, or present with any other state.
Kind(e) ==
    IF states[e] = None THEN "absent"
    ELSE IF states[e][1].state = UNAVAILABLE THEN "unavailable"
    ELSE "other"

\* The attribute `key` of the record of entity e where the record and the key
\* exist, else `fallback`.
FromAttribute(e, key, fallback) ==
    IF states[e] # None /\ key \in DOMAIN states[e][1].attributes
    THEN states[e][1].attributes[key]
    ELSE fallback

IsRead(name) == op = "read" /\ arg = Val(name)

\* C1: `available` is true exactly when both source records exist and neither
\* has the state "unavailable"; it is false whenever the primary is absent or
\* "unavailable", whatever the secondary is.
C1_Available ==
    /\ available <=> (Kind(matter_entity_id) = "other" /\ Kind(google_entity_id) = "other")
    /\ Kind(matter_entity_id) \in {"absent", "unavailable"} => ~available
    /\ IsRead("available") =>
         result = Val(Kind(matter_entity_id) = "other" /\ Kind(google_entity_id) = "other")

C1_Witness ==
    /\ IsRead("available")
    /\ result = Val(FALSE)
    /\ Kind(matter_entity_id) = "unavailable"
    /\ Kind(google_entity_id) = "other"

\* C2: setTemperature with an absent value issues no service call; with a
\* present value v it issues exactly one call, climate.set_temperature, addressed
\* to the primary source and carrying v, in every proxy state.
C2_SetTemperature ==
    op = "set_temperature" =>
        IF arg = None
        THEN issued = <<>>
        ELSE /\ Len(issued) = 1
             /\ issued[1].domain = "climate"
             /\ issued[1].service = "set_temperature"
             /\ issued[1].entity_id = matter_entity_id
             /\ issued[1].entity_id # google_entity_id
             /\ issued[1].key = "temperature"
             /\ issued[1].value = arg

C2_Witness ==
    /\ op = "set_temperature"
    /\ arg = Val(22)
    /\ Len(issued) = 1
    /\ lifecycle = "detached"
    /\ ~available

\* C3: after detach no subscription of an earlier attach is active: a later
\* state change of either source triggers no re-publish.
C3_NoLeakedListener ==
    (op = "state_change" /\ lifecycle = "detached") => writes = 0

\* C4: detach without attach raises nothing and calls no handle, and over any
\* sequence of attach and detach calls every handle is called at most once.
C4_DetachIdempotent ==
    /\ (op = "detach" /\ nAttach = 0) => (~raised /\ \A h \in Handles : invoked[h] = 0)
    /\ \A h \in Handles : invoked[h] <= 1

\* C5: attach registers the listener and then makes exactly one re-publish.
C5_AttachPublishesOnce ==
    op = "attach" =>
        /\ \E l \in listeners : l.handle = remove_listeners[Len(remove_listeners)]
        /\ writes = 1

\* C6: while attached (one attach, no detach), every state change of either
\* source triggers exactly one re-publish, whatever the records are.
C6_OneRepublishPerEvent ==
    (op = "state_change" /\ nAttach = 1 /\ nDetach = 0) => writes = 1

C6_Witness ==
    /\ op = "state_change"
    /\ arg = Val(google_entity_id)
    /\ nAttach = 1
    /\ nDetach = 0
    /\ writes = 1
    /\ Kind(google_entity_id) = "absent"

\* C7: minTemp is the primary's min_temp attribute when the record has it and 7
\* otherwise; maxTemp is its max_temp attribute when present and 35 otherwise.
C7_TemperatureLimits ==
    /\ min_temp = FromAttribute(matter_entity_id, "min_temp", Val(7))
    /\ max_temp = FromAttribute(matter_entity_id, "max_temp", Val(35))
    /\ IsRead("min_temp") => result = FromAttribute(matter_entity_id, "min_temp", Val(7))
    /\ IsRead("max_temp") => result = FromAttribute(matter_entity_id, "max_temp", Val(35))

C7_Witness ==
    /\ IsRead("min_temp")
    /\ result = Val(7)
    /\ states[matter_entity_id] # None
    /\ DOMAIN states[matter_entity_id][1].attributes = {"temperature", "max_temp"}
    /\ states[google_entity_id] # None

\* C8: every read returns what the registry holds at the moment of the read:
\* the temperatures from the primary's attributes, hvacMode the secondary's
\* state, the rest from the secondary's attributes; none when the record or the
\* attribute is absent, the empty list for hvacModes and fanModes.
ExpectedRead(name) ==
    CASE name = "current_temperature" ->
            FromAttribute(matter_entity_id, "current_temperature", None)
      [] name = "target_temperature" ->
            FromAttribute(matter_entity_id, "temperature", None)
      [] name = "hvac_mode" ->
            IF states[google_entity_id] # None
            THEN Val(states[google_entity_id][1].state)
            ELSE None
      [] name = "hvac_modes" -> FromAttribute(google_entity_id, "hvac_modes", Val(<<>>))
      [] name = "fan_mode" -> FromAttribute(google_entity_id, "fan_mode", None)
      [] name = "fan_modes" -> FromAttribute(google_entity_id, "fan_modes", Val(<<>>))
      [] name = "current_humidity" ->
            FromAttribute(google_entity_id, "current_humidity", None)

ReadAccessors == {"current_temperature", "target_temperature", "hvac_mode",
                  "hvac_modes", "fan_mode", "fan_modes", "current_humidity"}

C8_ReadThrough ==
    (op = "read" /\ arg[1] \in ReadAccessors) => result = ExpectedRead(arg[1])

C8_Witness ==
    /\ IsRead("current_temperature")
    /\ result = Val(19)
    /\ lifecycle = "detached"
    /\ listeners = {}

\* C9: setHvacMode and setFanMode each issue exactly one call, set_hvac_mode
\* resp. set_fan_mode of domain climate, addressed to the secondary source with
\* the mode unchanged, with no validation and whatever the availability.
C9_ModeCommands ==
    op \in {"set_hvac_mode", "set_fan_mode"} =>
        /\ Len(issued) = 1
        /\ issued[1].domain = "climate"
        /\ issued[1].service = op
        /\ issued[1].entity_id = google_entity_id
        /\ issued[1].entity_id # matter_entity_id
        /\ issued[1].key = (IF op = "set_hvac_mode" THEN "hvac_mode" ELSE "fan_mode")
        /\ issued[1].value = arg

C9_Witness ==
    /\ op = "set_hvac_mode"
    /\ arg = Val("dry")
    /\ hvac_modes = Val(<<"heat", "off">>)
    /\ ~available
    /\ Len(issued) = 1

\* C10: only the command methods hand calls to the dispatcher, one per call
\* with a present value and never a second one after a failure; attach, detach,
\* notification handling, refresh and reads issue none and leave the source
\* records as they are.
Passive == {"attach", "detach", "update", "read"}

C10_Step ==
    /\ ncalls' = forwarded'
    /\ ncalls' - ncalls = Len(issued')
    /\ Len(issued') <= 1
    /\ op' \in Passive \cup {"state_change"} => (issued' = <<>> /\ ncalls' = ncalls)
    /\ op' \in Passive => states' = states
    /\ op' = "state_change" =>
          \A e \in Entities \ {arg'[1]} : states'[e] = states[e]

C10_OnlyForwardedCommands == [][C10_Step]_vars

C10_Witness ==
    /\ op = "set_fan_mode"
    /\ raised
    /\ ncalls = 2
    /\ forwarded = 2
    /\ nAttach >= 1
    /\ nDetach >= 1

=============================================================================
